---- MODULE Spec2Model ----
(***************************************************************************)
(* Model of the frame's activities tray (jarabe/frame/activitiestray.py)   *)
(* and of the browser's start page (sugar/shell/StartPage.py).             *)
(*                                                                         *)
(* Six parts, each with its own specification:                             *)
(*   SpecInvites    the invite buttons of ActivitiesTray and their palettes*)
(*   SpecTransfer   the palette of one file transfer (incoming or outgoing)*)
(*   SpecFormat     BaseTransferPalette._format_size as a pure function    *)
(*   SpecButton     the button of one incoming transfer and its record     *)
(*   SpecStart      the start page: search entry, result list, row opening *)
(*   SpecActivities the activity buttons of ActivitiesTray                 *)
(* The variables of the parts that a specification does not exercise stay  *)
(* at their idle values.                                                   *)
(***************************************************************************)
EXTENDS Integers, Sequences, FiniteSets, TLC

VARIABLES
    \* ---- invites (external collection, tray, frame) ----
    invites,          \* the invites currently in the external collection
    resolvable,       \* history: invites whose activity the mesh knew when added
    _invite_to_item,  \* ActivitiesTray._invite_to_item: invite -> button id
    tray_items,       \* the invite buttons that are children of the tray, in order
    _notif_icon,      \* per live button: TRUE iff self._notif_icon is not None
    frame_notifs,     \* buttons whose notification icon the frame shows
    next_button,      \* identity of the next button object constructed
    requests,         \* history: per invite with a button, the launch requests
                      \* sent to the activity factory for it
    calls,            \* external calls issued by the last handler, in order
    last_op,          \* the last handler that ran and the invite it ran for
    error,            \* exception raised by the last handler, "none" if none
    \* ---- one file transfer and its palette ----
    direction,        \* "incoming" | "outgoing": which palette class
    ft_state,         \* file_transfer.props.state (external)
    file_size,        \* file_transfer.file_size (external, fixed)
    has_description,  \* file_transfer.description is non-empty (external, fixed)
    transferred_bytes,\* file_transfer.props.transferred_bytes (external)
    menu,             \* palette.menu children: sequence of item labels
    content,          \* palette content: [vbox |-> id, children |-> kinds]
    progress_bar,     \* cached handle: id of the vbox the bar was added to, 0 = None
    progress_label,   \* cached handle: same encoding
    fraction,         \* progress_bar.props.fraction as [num, den]
    label_text,       \* progress_label.props.label
    popped_up,        \* the palette is popped up
    handlers,         \* number of connected notify::transferred_bytes handlers
    _handler,         \* _notify_transferred_bytes_handler is not None
    next_widget,      \* identity of the next vbox constructed
    notifications,    \* state notifications delivered so far
    ft_calls,         \* calls forwarded to the transfer by the last activation
    ft_error,         \* exception raised by the last palette handler
    ft_op,            \* the last palette handler that ran
    \* ---- _format_size ----
    fmt_size,         \* the argument
    fmt_out,          \* the rendered result
    fmt_pc,           \* "start" | "done"
    \* ---- one incoming transfer's button and the document store ----
    b_state,          \* file_transfer.props.state as the button reads it
    b_file_size,      \* file_transfer.file_size
    b_transferred,    \* file_transfer.props.transferred_bytes
    _object_id,       \* IncomingTransferButton._object_id, 0 = None
    _metadata,        \* IncomingTransferButton._metadata: key -> value
    ds_calls,         \* document-store calls issued by the last handler
    ds_pending,       \* asynchronous calls whose reply or error is outstanding
    ds_next_id,       \* the object id the store's next create returns
    ds_records,       \* object ids created and not deleted
    b_error,          \* exception raised by the last handler of the button
    b_op,             \* the last handler of the button that ran
    \* ---- the start page ----
    sp_entry,         \* text of StartPage._search_entry, 0 = ''
    sp_model,         \* rows of the model set on the view: <<title, address>>
    sp_results,       \* history: data.results of the latest search
    sp_query,         \* history: the text handed to the latest search
    sp_path,          \* history: the row last activated
    sp_calls,         \* browser-shell calls issued by the last handler
    sp_op,            \* the last handler of the start page that ran
    \* ---- the activity buttons of the tray ----
    home_activities,  \* ids of the activities in the shell model
    windows,          \* the activities whose get_window() is not None
    tabbing_activity, \* home_model.get_tabbing_activity(), None = 0
    _buttons,         \* ActivitiesTray._buttons: activity id -> button
    activity_items,   \* the activity buttons among the tray's children
    active_button,    \* the button whose props.active is True, None = 0
    _freeze_button_clicks,
    next_activity_button, \* the next ActivityButton object to be created
    act_calls,        \* window.activate calls issued by the last handler
    act_error,        \* the exception the last handler raised, or "none"
    act_op            \* the last handler of this part that ran

inviteVars == <<invites, resolvable, _invite_to_item, tray_items, _notif_icon,
                frame_notifs, next_button, requests, calls, last_op, error>>
transferVars == <<direction, ft_state, file_size, has_description, transferred_bytes, menu, content,
                  progress_bar, progress_label, fraction, label_text, popped_up,
                  handlers, _handler, next_widget, notifications, ft_calls,
                  ft_error, ft_op>>
formatVars == <<fmt_size, fmt_out, fmt_pc>>
buttonVars == <<b_state, b_file_size, b_transferred, _object_id, _metadata,
                ds_calls, ds_pending, ds_next_id, ds_records, b_error, b_op>>
startVars == <<sp_entry, sp_model, sp_results, sp_query, sp_path, sp_calls, sp_op>>
activityVars == <<home_activities, windows, tabbing_activity, _buttons,
                  activity_items, active_button, _freeze_button_clicks,
                  next_activity_button, act_calls, act_error, act_op>>
vars == <<inviteVars, transferVars, formatVars, buttonVars, startVars,
          activityVars>>

(***************************************************************************)
(* Bounds of the model.                                                    *)
(***************************************************************************)
NumActivities == 2
NumChannels == 1
MaxButtons == 3
MaxRequests == 2

None == 0

(***************************************************************************)
(* Invites.  An invite is a shared-activity invite (it has get_activity_id)*)
(* or a private-channel invite (it has get_private_channel).  The bundle   *)
(* argument of the factory calls is resolved by the external bundle        *)
(* registry and is not represented.                                        *)
(***************************************************************************)
ActivityInvites == {[kind |-> "activity", id |-> a] : a \in 1..NumActivities}
PrivateInvites == {[kind |-> "private", id |-> c] : c \in 1..NumChannels}
Invite == ActivityInvites \cup PrivateInvites
NoInvite == [kind |-> "none", id |-> 0]

\* hasattr(invite, 'get_activity_id')
HasActivityId(invite) == invite.kind = "activity"

Call(fn, arg) == [fn |-> fn, arg |-> arg]

\* The tray with everything it touches, as one value.
TrayState ==
    [invites |-> invites, resolvable |-> resolvable, map |-> _invite_to_item,
     items |-> tray_items, notif |-> _notif_icon, frame |-> frame_notifs,
     next |-> next_button, requests |-> requests, calls |-> calls,
     error |-> error]

Restrict(f, S) == [x \in S |-> f[x]]
Without(seq, b) == SelectSeq(seq, LAMBDA x : x # b)

\* BaseInviteButton.__init__ followed by the subclass constructor: a fresh
\* button with a notification icon that the frame shows.
NewInviteButton(st) ==
    [st EXCEPT !.notif = [b \in DOMAIN st.notif \cup {st.next} |->
                              IF b = st.next THEN TRUE ELSE st.notif[b]],
               !.frame = st.frame \cup {st.next},
               !.next = st.next + 1]

\* ActivitiesTray._add_invite.  known: mesh.get_activity(id) is not None.
AddInvite(st, invite, known) ==
    IF HasActivityId(invite) /\ ~known
    THEN st
    ELSE LET b == st.next
             s1 == NewInviteButton(st)
         IN [s1 EXCEPT !.items = Append(s1.items, b),
                       !.map = [i \in DOMAIN s1.map \cup {invite} |->
                                    IF i = invite THEN b ELSE s1.map[i]],
                       !.requests = [i \in DOMAIN s1.requests \cup {invite} |->
                                    IF i = invite THEN 0 ELSE s1.requests[i]]]

\* BaseInviteButton.__destroy_cb: remove_notification(self._notif_icon),
\* whatever the attribute holds.
DestroyButton(st, b) ==
    [st EXCEPT !.calls = Append(st.calls,
                   Call("frame.remove_notification", IF st.notif[b] THEN b ELSE None)),
               !.frame = st.frame \ {b},
               !.notif = Restrict(st.notif, DOMAIN st.notif \ {b})]

RemoveInviteKeepEntry(st, invite) ==
    IF invite \notin DOMAIN st.map
    THEN [st EXCEPT !.error = "KeyError"]
    ELSE LET b == st.map[invite]
             s1 == [st EXCEPT !.items = Without(st.items, b)]
         IN DestroyButton(s1, b)

\* ActivitiesTray._remove_invite.
RemoveInvite(st, invite) ==
    IF invite \notin DOMAIN st.map
    THEN [st EXCEPT !.error = "KeyError"]
    ELSE LET b == st.map[invite]
             s1 == [st EXCEPT !.items = Without(st.items, b)]
             s2 == DestroyButton(s1, b)
         IN [s2 EXCEPT !.map = Restrict(s2.map, DOMAIN s2.map \ {invite}),
                       !.requests = Restrict(s2.requests,
                                             DOMAIN s2.requests \ {invite})]

\* The external collection serving a removal request: it drops the invite and
\* emits invite-removed, which runs __invite_removed_cb -> _remove_invite.
CollectionRemove(st, invite) ==
    IF invite \notin st.invites
    THEN st
    ELSE RemoveInvite([st EXCEPT !.invites = st.invites \ {invite},
                                 !.resolvable = st.resolvable \ {invite}],
                      invite)

Commit(st) ==
    /\ invites' = st.invites
    /\ resolvable' = st.resolvable
    /\ _invite_to_item' = st.map
    /\ tray_items' = st.items
    /\ _notif_icon' = st.notif
    /\ frame_notifs' = st.frame
    /\ next_button' = st.next
    /\ requests' = st.requests
    /\ calls' = st.calls
    /\ error' = st.error

\* A handler starts with an empty call log and no error.
Fresh(st) == [st EXCEPT !.calls = <<>>, !.error = "none"]

EmptyTray ==
    [invites |-> {}, resolvable |-> {}, map |-> <<>>, items |-> <<>>,
     notif |-> <<>>, frame |-> {}, next |-> 1, requests |-> <<>>,
     calls |-> <<>>, error |-> "none"]

\* ActivitiesTray.__init__: a button for every invite already in the collection.
RECURSIVE ConstructTray(_, _, _)
ConstructTray(st, S, known) ==
    IF S = {}
    THEN st
    ELSE LET i == CHOOSE x \in S : TRUE
         IN ConstructTray(AddInvite(st, i, i \in known), S \ {i}, known)

InitInvites ==
    \E S \in SUBSET Invite : \E known \in SUBSET (S \cap ActivityInvites) :
        /\ Cardinality(S) <= MaxButtons
        /\ LET st == ConstructTray([EmptyTray EXCEPT !.invites = S,
                                                     !.resolvable = known],
                                   S, known)
           IN /\ invites = st.invites
              /\ resolvable = st.resolvable
              /\ _invite_to_item = st.map
              /\ tray_items = st.items
              /\ _notif_icon = st.notif
              /\ frame_notifs = st.frame
              /\ next_button = st.next
              /\ requests = st.requests
              /\ calls = st.calls
              /\ error = st.error
        /\ last_op = [op |-> "init", invite |-> NoInvite]

\* invite-added from the collection: ActivitiesTray.__invite_added_cb.
InviteAdded(invite, known) ==
    /\ invite \notin invites
    /\ next_button <= MaxButtons
    /\ known \in BOOLEAN
    /\ LET s0 == Fresh(TrayState)
           s1 == [s0 EXCEPT !.invites = s0.invites \cup {invite},
                            !.resolvable = IF HasActivityId(invite) /\ known
                                           THEN s0.resolvable \cup {invite}
                                           ELSE s0.resolvable]
       IN Commit(AddInvite(s1, invite, known))
    /\ last_op' = [op |-> "invite-added", invite |-> invite]
    /\ UNCHANGED <<transferVars, formatVars, buttonVars, startVars, activityVars>>

\* invite-removed from the collection: ActivitiesTray.__invite_removed_cb.
InviteRemoved(invite) ==
    /\ invite \in invites
    /\ Commit(CollectionRemove(Fresh(TrayState), invite))
    /\ last_op' = [op |-> "invite-removed", invite |-> invite]
    /\ UNCHANGED <<transferVars, formatVars, buttonVars, startVars, activityVars>>

DeclineLaunches(invite) ==
    /\ invite \in DOMAIN _invite_to_item
    /\ LET s0 == Fresh(TrayState)
           s1 == [s0 EXCEPT !.calls = <<
                      IF HasActivityId(invite)
                      THEN Call("activityfactory.create", invite.id)
                      ELSE Call("activityfactory.create_with_uri", invite.id),
                      IF HasActivityId(invite)
                      THEN Call("invites.remove_activity", invite.id)
                      ELSE Call("invites.remove_private_channel", invite.id)>>]
       IN Commit(CollectionRemove(s1, invite))
    /\ last_op' = [op |-> "decline", invite |-> invite]
    /\ UNCHANGED <<transferVars, formatVars, buttonVars, startVars, activityVars>>

\* BaseInvitePalette.__decline_activate_cb -> _decline of the subclass.
Decline(invite) ==
    /\ invite \in DOMAIN _invite_to_item
    /\ LET s0 == Fresh(TrayState)
           s1 == [s0 EXCEPT !.calls = Append(s0.calls,
                      IF HasActivityId(invite)
                      THEN Call("invites.remove_activity", invite.id)
                      ELSE Call("invites.remove_private_channel", invite.id))]
       IN Commit(CollectionRemove(s1, invite))
    /\ last_op' = [op |-> "decline", invite |-> invite]
    /\ UNCHANGED <<transferVars, formatVars, buttonVars, startVars, activityVars>>

JoinNoLaunch(invite) ==
    /\ invite \in DOMAIN _invite_to_item
    /\ LET s0 == Fresh(TrayState)
       IN IF HasActivityId(invite)
          THEN Commit(s0)
          ELSE Commit(CollectionRemove(
                   [s0 EXCEPT !.calls = Append(s0.calls,
                        Call("invites.remove_private_channel", invite.id))],
                   invite))
    /\ last_op' = [op |-> "join", invite |-> invite]
    /\ UNCHANGED <<transferVars, formatVars, buttonVars, startVars, activityVars>>

\* BaseInvitePalette.__join_activate_cb -> _join of the subclass.
Join(invite) ==
    /\ invite \in DOMAIN _invite_to_item
    /\ requests[invite] < MaxRequests
    /\ LET s0 == Fresh(TrayState)
       IN IF HasActivityId(invite)
          THEN Commit([s0 EXCEPT !.calls = Append(s0.calls,
                           Call("activityfactory.create", invite.id)),
                                 !.requests[invite] = @ + 1])
          ELSE LET s1 == [s0 EXCEPT !.calls = Append(s0.calls,
                              Call("activityfactory.create_with_uri", invite.id)),
                                    !.requests[invite] = @ + 1]
                   s2 == [s1 EXCEPT !.calls = Append(s1.calls,
                              Call("invites.remove_private_channel", invite.id))]
               IN Commit(CollectionRemove(s2, invite))
    /\ last_op' = [op |-> "join", invite |-> invite]
    /\ UNCHANGED <<transferVars, formatVars, buttonVars, startVars, activityVars>>

\* ActivityInviteButton._launch / PrivateInviteButton._launch.
\* running: shell_model.get_activity_by_id(id) is not None.
Launch(st, invite, running) ==
    IF HasActivityId(invite)
    THEN IF running
         THEN [st EXCEPT !.calls = Append(st.calls, Call("window.activate", invite.id))]
         ELSE [st EXCEPT !.calls = st.calls \o
                   <<Call("launcher.add_launcher", invite.id),
                     Call("activityfactory.create", invite.id)>>,
                         !.requests[invite] = @ + 1]
    ELSE [st EXCEPT !.calls = Append(st.calls,
              Call("activityfactory.create_with_uri", invite.id)),
                    !.requests[invite] = @ + 1]

ClickRelaunches(invite, running, served) ==
    /\ invite \in DOMAIN _invite_to_item
    /\ requests[invite] < MaxRequests
    /\ running \in BOOLEAN
    /\ served \in BOOLEAN
    /\ LET s0 == Fresh(TrayState)
           b == s0.map[invite]
           s1 == Launch([s0 EXCEPT
                            !.calls = Append(s0.calls,
                                Call("frame.remove_notification", b)),
                            !.frame = s0.frame \ {b},
                            !.notif = [s0.notif EXCEPT ![b] = FALSE]],
                        invite, running)
           s2 == [s1 EXCEPT !.calls = Append(s1.calls,
                      IF HasActivityId(invite)
                      THEN Call("invites.remove_invite", invite.id)
                      ELSE Call("invites.remove_private_invite", invite.id))]
       IN Commit(IF served THEN CollectionRemove(s2, invite) ELSE s2)
    /\ last_op' = [op |-> "click", invite |-> invite]
    /\ UNCHANGED <<transferVars, formatVars, buttonVars, startVars, activityVars>>

\* A click on an invite button (or a release on its notification icon, which
\* emits clicked): BaseInviteButton.__clicked_cb, then
\* ActivitiesTray.__invite_clicked_cb, in the order they were connected.
\* served: the collection emits invite-removed before the removal call
\* returns; otherwise the notification comes later, as InviteRemoved.
Click(invite, running, served) ==
    /\ invite \in DOMAIN _invite_to_item
    /\ requests[invite] < MaxRequests
    /\ running \in BOOLEAN
    /\ served \in BOOLEAN
    /\ LET s0 == Fresh(TrayState)
           b == s0.map[invite]
           s1 == IF s0.notif[b]
                 THEN Launch([s0 EXCEPT
                                 !.calls = Append(s0.calls,
                                     Call("frame.remove_notification", b)),
                                 !.frame = s0.frame \ {b},
                                 !.notif = [s0.notif EXCEPT ![b] = FALSE]],
                             invite, running)
                 ELSE s0
           s2 == [s1 EXCEPT !.calls = Append(s1.calls,
                      IF HasActivityId(invite)
                      THEN Call("invites.remove_invite", invite.id)
                      ELSE Call("invites.remove_private_invite", invite.id))]
       IN Commit(IF served THEN CollectionRemove(s2, invite) ELSE s2)
    /\ last_op' = [op |-> "click", invite |-> invite]
    /\ UNCHANGED <<transferVars, formatVars, buttonVars, startVars, activityVars>>

InvitesIdle ==
    /\ invites = {} /\ resolvable = {} /\ _invite_to_item = <<>>
    /\ tray_items = <<>> /\ _notif_icon = <<>> /\ frame_notifs = {}
    /\ next_button = 1 /\ requests = <<>> /\ calls = <<>> /\ error = "none"
    /\ last_op = [op |-> "init", invite |-> NoInvite]

NextInvites ==
    \/ \E i \in Invite : \E known \in BOOLEAN : InviteAdded(i, known)
    \/ \E i \in Invite : InviteRemoved(i)
    \/ \E i \in Invite : Decline(i)
    \/ \E i \in Invite : Join(i)
    \/ \E i \in Invite : \E running, served \in BOOLEAN : Click(i, running, served)

(***************************************************************************)
(* File transfers.                                                         *)
(***************************************************************************)
MaxFileSize == 3
MaxNotifications == 3

KB == 1024
MB == 1048576

FT_STATES == {"pending", "accepted", "open", "completed", "cancelled"}

FormatSizeInclusive(size) ==
    IF size <= KB
    THEN [n |-> size, unit |-> "B"]
    ELSE IF size <= MB
         THEN [n |-> size \div KB, unit |-> "KB"]
         ELSE [n |-> size \div MB, unit |-> "MB"]

\* BaseTransferPalette._format_size, for an integer size >= 0: '%dB', '%dKB',
\* '%dMB' of size, size / 1024, size / 1048576 (integer division).
FormatSize(size) ==
    IF size < KB
    THEN [n |-> size, unit |-> "B"]
    ELSE IF size < MB
         THEN [n |-> size \div KB, unit |-> "KB"]
         ELSE [n |-> size \div MB, unit |-> "MB"]

\* The palette as one value.
PaletteState ==
    [menu |-> menu, content |-> content, progress_bar |-> progress_bar,
     progress_label |-> progress_label, fraction |-> fraction,
     label_text |-> label_text, next_widget |-> next_widget, error |-> ft_error]

\* The transfer as the palette reads it.
Transfer ==
    [state |-> ft_state, file_size |-> file_size,
     transferred_bytes |-> transferred_bytes, description |-> has_description]

UpdateProgressIntDiv(p, ft) ==
    IF p.progress_bar = None
    THEN p
    ELSE IF ft.file_size = 0
         THEN [p EXCEPT !.error = "ZeroDivisionError"]
         ELSE [p EXCEPT !.fraction = [num |-> ft.transferred_bytes \div ft.file_size,
                                      den |-> 1],
                        !.label_text = <<FormatSize(ft.transferred_bytes),
                                         FormatSize(ft.file_size)>>]

\* BaseTransferPalette.update_progress.  The fraction transferred / float(size)
\* is kept as the pair [num, den]; a division by zero raises before anything
\* is assigned.
UpdateProgress(p, ft) ==
    IF p.progress_bar = None
    THEN p
    ELSE IF ft.file_size = 0
         THEN [p EXCEPT !.error = "ZeroDivisionError"]
         ELSE [p EXCEPT !.fraction = [num |-> ft.transferred_bytes,
                                      den |-> ft.file_size],
                        !.label_text = <<FormatSize(ft.transferred_bytes),
                                         FormatSize(ft.file_size)>>]

\* The vbox of the pending branch: the description, if any, and "size (type)".
PendingContent(p, ft) ==
    [vbox |-> p.next_widget,
     children |-> (IF ft.description THEN <<[kind |-> "description"]>> ELSE <<>>)
                  \o <<[kind |-> "size_type", size |-> FormatSize(ft.file_size)]>>]

\* The vbox of the accepted/open branch: a new progress bar and a new label.
ProgressContent(p) ==
    [vbox |-> p.next_widget,
     children |-> <<[kind |-> "progress_bar"], [kind |-> "progress_label"]>>]

RenderProgressKeepMenu(p, ft) ==
    UpdateProgress([p EXCEPT !.menu = Append(p.menu, "Cancel"),
                             !.content = ProgressContent(p),
                             !.progress_bar = p.next_widget,
                             !.progress_label = p.next_widget,
                             !.fraction = [num |-> 0, den |-> 1],
                             !.label_text = <<>>,
                             !.next_widget = p.next_widget + 1],
                   ft)

\* The accepted/open branch, the same in both palettes: empty the menu, add
\* Cancel, replace the content by a progress bar and label, update_progress.
RenderProgress(p, ft) ==
    UpdateProgress([p EXCEPT !.menu = <<"Cancel">>,
                             !.content = ProgressContent(p),
                             !.progress_bar = p.next_widget,
                             !.progress_label = p.next_widget,
                             !.fraction = [num |-> 0, den |-> 1],
                             !.label_text = <<>>,
                             !.next_widget = p.next_widget + 1],
                   ft)

\* IncomingTransferPalette._update.
UpdateIncoming(p, ft) ==
    CASE ft.state = "pending" ->
            [p EXCEPT !.menu = p.menu \o <<"Accept", "Decline">>,
                      !.content = PendingContent(p, ft),
                      !.next_widget = p.next_widget + 1]
      [] ft.state \in {"accepted", "open"} -> RenderProgress(p, ft)
      [] ft.state = "completed" -> UpdateProgress(p, ft)
      [] ft.state = "cancelled" ->
            UpdateProgress([p EXCEPT !.menu = Append(p.menu, "Resume")], ft)

\* OutgoingTransferPalette._update.
UpdateOutgoing(p, ft) ==
    CASE ft.state = "pending" ->
            [p EXCEPT !.menu = Append(p.menu, "Cancel"),
                      !.content = PendingContent(p, ft),
                      !.next_widget = p.next_widget + 1]
      [] ft.state \in {"accepted", "open"} -> RenderProgress(p, ft)
      [] ft.state = "completed" -> UpdateProgress(p, ft)
      [] ft.state = "cancelled" -> UpdateProgress(p, ft)

Update(dir, p, ft) ==
    IF dir = "incoming" THEN UpdateIncoming(p, ft) ELSE UpdateOutgoing(p, ft)

\* BaseTransferPalette.__init__: no content, no cached handle, no handler.
NewPalette ==
    [menu |-> <<>>, content |-> [vbox |-> None, children |-> <<>>],
     progress_bar |-> None, progress_label |-> None,
     fraction |-> [num |-> 0, den |-> 1], label_text |-> <<>>,
     next_widget |-> 1, error |-> "none"]

CommitPalette(p) ==
    /\ menu' = p.menu
    /\ content' = p.content
    /\ progress_bar' = p.progress_bar
    /\ progress_label' = p.progress_label
    /\ fraction' = p.fraction
    /\ label_text' = p.label_text
    /\ next_widget' = p.next_widget
    /\ ft_error' = p.error

FreshPalette == [PaletteState EXCEPT !.error = "none"]

\* The palette right after IncomingTransferPalette.__init__ or
\* OutgoingTransferPalette.__init__ returned, for a transfer in any state.  A
\* constructor whose _update raises (accepted/open with file size 0) yields no
\* palette, so such a start is excluded.
InitTransfer ==
    \E dir \in {"incoming", "outgoing"} : \E s \in FT_STATES :
    \E size \in 0..MaxFileSize : \E done \in 0..MaxFileSize : \E desc \in BOOLEAN :
        /\ done <= size
        /\ LET ft == [state |-> s, file_size |-> size, transferred_bytes |-> done,
                      description |-> desc]
               p == Update(dir, NewPalette, ft)
           IN /\ p.error = "none"
              /\ menu = p.menu
              /\ content = p.content
              /\ progress_bar = p.progress_bar
              /\ progress_label = p.progress_label
              /\ fraction = p.fraction
              /\ label_text = p.label_text
              /\ next_widget = p.next_widget
              /\ ft_error = p.error
        /\ direction = dir
        /\ ft_state = s
        /\ file_size = size
        /\ transferred_bytes = done
        /\ has_description = desc
        /\ popped_up = FALSE
        /\ handlers = 0
        /\ _handler = FALSE
        /\ notifications = 0
        /\ ft_calls = <<>>
        /\ ft_op = "init"

\* BaseTransferPalette.__popup_cb: update_progress, then connect the
\* byte-count handler (not reached when update_progress raised).
\* The palette emits popup when it is shown and popdown when it is hidden, so
\* the two alternate.
Popup ==
    /\ ~popped_up
    /\ popped_up' = TRUE
    /\ LET p == UpdateProgress(FreshPalette, Transfer)
       IN /\ CommitPalette(p)
          /\ IF p.error = "none"
             THEN handlers' = handlers + 1 /\ _handler' = TRUE
             ELSE UNCHANGED <<handlers, _handler>>
    /\ ft_calls' = <<>>
    /\ ft_op' = "popup"
    /\ UNCHANGED <<inviteVars, formatVars, buttonVars, startVars, activityVars>>
    /\ UNCHANGED <<direction, ft_state, file_size, has_description,
                   transferred_bytes, notifications>>

PopdownKeepsSubscription ==
    /\ popped_up
    /\ popped_up' = FALSE
    /\ _handler' = FALSE
    /\ UNCHANGED handlers
    /\ CommitPalette(FreshPalette)
    /\ ft_calls' = <<>>
    /\ ft_op' = "popdown"
    /\ UNCHANGED <<inviteVars, formatVars, buttonVars, startVars, activityVars>>
    /\ UNCHANGED <<direction, ft_state, file_size, has_description,
                   transferred_bytes, notifications>>

\* BaseTransferPalette.__popdown_cb.
Popdown ==
    /\ popped_up
    /\ popped_up' = FALSE
    /\ IF _handler
       THEN handlers' = handlers - 1 /\ _handler' = FALSE
       ELSE UNCHANGED <<handlers, _handler>>
    /\ CommitPalette(FreshPalette)
    /\ ft_calls' = <<>>
    /\ ft_op' = "popdown"
    /\ UNCHANGED <<inviteVars, formatVars, buttonVars, startVars, activityVars>>
    /\ UNCHANGED <<direction, ft_state, file_size, has_description,
                   transferred_bytes, notifications>>

\* notify::transferred_bytes: BaseTransferPalette.__notify_transferred_bytes_cb
\* runs if a handler is connected.
NotifyTransferredBytes(n) ==
    /\ n \in 0..file_size
    /\ n # transferred_bytes
    /\ transferred_bytes' = n
    /\ CommitPalette(IF handlers > 0
                     THEN UpdateProgress(FreshPalette,
                                         [Transfer EXCEPT !.transferred_bytes = n])
                     ELSE FreshPalette)
    /\ ft_calls' = <<>>
    /\ ft_op' = "notify-bytes"
    /\ UNCHANGED <<inviteVars, formatVars, buttonVars, startVars, activityVars>>
    /\ UNCHANGED <<direction, ft_state, file_size, has_description, popped_up,
                   handlers, _handler, notifications>>

\* notify::state: __notify_state_cb of the palette -> _update.
NotifyState(s) ==
    /\ s \in FT_STATES
    /\ s # ft_state
    /\ notifications < MaxNotifications
    /\ notifications' = notifications + 1
    /\ ft_state' = s
    /\ CommitPalette(Update(direction, FreshPalette, [Transfer EXCEPT !.state = s]))
    /\ ft_calls' = <<>>
    /\ ft_op' = "notify-state"
    /\ UNCHANGED <<inviteVars, formatVars, buttonVars, startVars, activityVars>>
    /\ UNCHANGED <<direction, file_size, has_description, transferred_bytes,
                   popped_up, handlers, _handler>>

\* The transfer operation a menu item forwards: __accept_activate_cb,
\* __decline_activate_cb, __cancel_activate_cb, __resume_activate_cb.
ItemOperation(item) ==
    CASE item = "Accept" -> "accept"
      [] item = "Decline" -> "decline"
      [] item = "Cancel" -> "cancel"
      [] item = "Resume" -> "resume"

ActivateOptimistic(k) ==
    /\ k \in 1..Len(menu)
    /\ ft_calls' = <<[item |-> k, op |-> ItemOperation(menu[k])]>>
    /\ CommitPalette([FreshPalette EXCEPT !.menu = <<>>])
    /\ ft_op' = "activate"
    /\ UNCHANGED <<inviteVars, formatVars, buttonVars, startVars, activityVars>>
    /\ UNCHANGED <<direction, ft_state, file_size, has_description,
                   transferred_bytes, popped_up, handlers, _handler, notifications>>

\* Activation of the k-th item of the menu.
Activate(k) ==
    /\ k \in 1..Len(menu)
    /\ ft_calls' = <<[item |-> k, op |-> ItemOperation(menu[k])]>>
    /\ CommitPalette(FreshPalette)
    /\ ft_op' = "activate"
    /\ UNCHANGED <<inviteVars, formatVars, buttonVars, startVars, activityVars>>
    /\ UNCHANGED <<direction, ft_state, file_size, has_description,
                   transferred_bytes, popped_up, handlers, _handler, notifications>>

TransferIdle ==
    /\ direction = "incoming" /\ ft_state = "pending" /\ file_size = 0
    /\ has_description = FALSE /\ transferred_bytes = 0 /\ menu = <<>>
    /\ content = [vbox |-> None, children |-> <<>>]
    /\ progress_bar = None /\ progress_label = None
    /\ fraction = [num |-> 0, den |-> 1] /\ label_text = <<>>
    /\ popped_up = FALSE /\ handlers = 0 /\ _handler = FALSE
    /\ next_widget = 1 /\ notifications = 0 /\ ft_calls = <<>>
    /\ ft_error = "none" /\ ft_op = "init"

MaxMenu == 2 + 2 * MaxNotifications

NextTransfer ==
    \/ Popup
    \/ Popdown
    \/ \E n \in 0..MaxFileSize : NotifyTransferredBytes(n)
    \/ \E s \in FT_STATES : NotifyState(s)
    \/ \E k \in 1..MaxMenu : Activate(k)

(***************************************************************************)
(* _format_size applied to sizes around its thresholds.                    *)
(***************************************************************************)
FormatDelta == 8

FormatSizes ==
    {k * KB + d : k \in 0..2, d \in (0 - FormatDelta)..FormatDelta}
    \cup {k * MB + d : k \in 1..2, d \in (0 - FormatDelta)..FormatDelta}

InitFormat ==
    /\ fmt_size \in {x \in FormatSizes : x >= 0}
    /\ fmt_out = [n |-> 0, unit |-> "none"]
    /\ fmt_pc = "start"

FormatIdle ==
    /\ fmt_size = 0
    /\ fmt_out = [n |-> 0, unit |-> "none"]
    /\ fmt_pc = "start"

\* One call of _format_size(fmt_size).
Format ==
    /\ fmt_pc = "start"
    /\ fmt_out' = FormatSize(fmt_size)
    /\ fmt_pc' = "done"
    /\ UNCHANGED <<fmt_size, inviteVars, transferVars, buttonVars, startVars, activityVars>>

(***************************************************************************)
(* The button of an incoming transfer and its document-store calls.        *)
(***************************************************************************)
MaxCreates == 2
MaxPending == 2

DsCall(fn, object_id, progress, mode) ==
    [fn |-> fn, object_id |-> object_id, progress |-> progress, mode |-> mode,
     reply_handler |-> mode = "async", error_handler |-> mode = "async"]

\* datastore.create(self._metadata, file_path, transfer_ownership): no reply
\* or error handler, the caller waits for the returned object id.
CreateCall(progress) == DsCall("create", None, progress, "sync")

UpdateCallBlocking(object_id, progress) ==
    DsCall("update", object_id, progress, "sync")

\* datastore.update(self._object_id, self._metadata, file_path,
\* transfer_ownership, reply_handler=..., error_handler=...).
UpdateCall(object_id, progress) == DsCall("update", object_id, progress, "async")

\* The button with the store, as one value.
ButtonState ==
    [object_id |-> _object_id, metadata |-> _metadata, calls |-> <<>>,
     pending |-> ds_pending, next_id |-> ds_next_id, records |-> ds_records,
     error |-> "none"]

\* The metadata written when the transfer opens; str(n) is kept as n.
OpenMetadata ==
    [k \in {"title", "description", "progress", "keep", "buddies", "preview",
            "icon-color", "mime_type"} |->
        IF k \in {"progress", "keep"} THEN 0 ELSE 1]

SetKey(md, key, value) ==
    [k \in DOMAIN md \cup {key} |-> IF k = key THEN value ELSE md[k]]

\* IncomingTransferButton.__notify_state_cb.  The cancelled branch reads the
\* local name datastore, which only the other branches bind.
ButtonStateChanged(b, state) ==
    CASE state = "open" ->
            [b EXCEPT !.metadata = OpenMetadata,
                      !.calls = <<CreateCall(0)>>,
                      !.object_id = b.next_id,
                      !.records = b.records \cup {b.next_id},
                      !.next_id = b.next_id + 1]
      [] state = "completed" ->
            [b EXCEPT !.metadata = SetKey(b.metadata, "progress", 100),
                      !.calls = <<UpdateCall(b.object_id, 100)>>,
                      !.pending = b.pending + 1]
      [] state = "cancelled" ->
            IF b.object_id # None
            THEN [b EXCEPT !.error = "UnboundLocalError"]
            ELSE b
      [] OTHER -> b

\* IncomingTransferButton.__notify_transferred_bytes_cb: integer division of
\* the two integers, then str(progress * 100).
ButtonBytesChanged(b, transferred, size) ==
    IF size = 0
    THEN [b EXCEPT !.error = "ZeroDivisionError"]
    ELSE LET progress == transferred \div size
         IN [b EXCEPT !.metadata = SetKey(b.metadata, "progress", progress * 100),
                      !.calls = <<UpdateCall(b.object_id, progress * 100)>>,
                      !.pending = b.pending + 1]

CommitButton(b) ==
    /\ _object_id' = b.object_id
    /\ _metadata' = b.metadata
    /\ ds_calls' = b.calls
    /\ ds_pending' = b.pending
    /\ ds_next_id' = b.next_id
    /\ ds_records' = b.records
    /\ b_error' = b.error

\* IncomingTransferButton.__init__ for a new, pending transfer.
InitButton ==
    /\ b_state = "pending"
    /\ b_file_size \in 0..MaxFileSize
    /\ b_transferred = 0
    /\ _object_id = None
    /\ _metadata = <<>>
    /\ ds_calls = <<>>
    /\ ds_pending = 0
    /\ ds_next_id = 1
    /\ ds_records = {}
    /\ b_error = "none"
    /\ b_op = "init"

ButtonIdle ==
    /\ b_state = "pending" /\ b_file_size = 0 /\ b_transferred = 0
    /\ _object_id = None /\ _metadata = <<>> /\ ds_calls = <<>>
    /\ ds_pending = 0 /\ ds_next_id = 1 /\ ds_records = {}
    /\ b_error = "none" /\ b_op = "init"

\* notify::state delivered to the button.
ButtonNotifyState(s) ==
    /\ s \in FT_STATES
    /\ s # b_state
    /\ s = "open" => ds_next_id <= MaxCreates
    /\ s = "completed" => ds_pending < MaxPending
    /\ b_state' = s
    /\ CommitButton(ButtonStateChanged(ButtonState, s))
    /\ b_op' = "notify-state"
    /\ UNCHANGED <<b_file_size, b_transferred>>
    /\ UNCHANGED <<inviteVars, transferVars, formatVars, startVars, activityVars>>

\* notify::transferred-bytes delivered to the button; the property is
\* notified on every set.
ButtonNotifyBytes(n) ==
    /\ n \in 0..b_file_size
    /\ ds_pending < MaxPending
    /\ b_transferred' = n
    /\ CommitButton(ButtonBytesChanged(ButtonState, n, b_file_size))
    /\ b_op' = "notify-bytes"
    /\ UNCHANGED <<b_state, b_file_size>>
    /\ UNCHANGED <<inviteVars, transferVars, formatVars, startVars, activityVars>>

\* The store answers an asynchronous call: __reply_handler_cb logs.
DsReply ==
    /\ ds_pending > 0
    /\ ds_pending' = ds_pending - 1
    /\ ds_calls' = <<>>
    /\ b_error' = "none"
    /\ b_op' = "reply-handler"
    /\ UNCHANGED <<b_state, b_file_size, b_transferred, _object_id, _metadata,
                   ds_next_id, ds_records>>
    /\ UNCHANGED <<inviteVars, transferVars, formatVars, startVars, activityVars>>

DsErrorRetries ==
    /\ ds_pending > 0
    /\ ds_pending' = ds_pending
    /\ ds_calls' = <<UpdateCall(_object_id, _metadata["progress"])>>
    /\ b_error' = "none"
    /\ b_op' = "error-handler"
    /\ UNCHANGED <<b_state, b_file_size, b_transferred, _object_id, _metadata,
                   ds_next_id, ds_records>>
    /\ UNCHANGED <<inviteVars, transferVars, formatVars, startVars, activityVars>>

\* An asynchronous call fails: __error_handler_cb logs.
DsError ==
    /\ ds_pending > 0
    /\ ds_pending' = ds_pending - 1
    /\ ds_calls' = <<>>
    /\ b_error' = "none"
    /\ b_op' = "error-handler"
    /\ UNCHANGED <<b_state, b_file_size, b_transferred, _object_id, _metadata,
                   ds_next_id, ds_records>>
    /\ UNCHANGED <<inviteVars, transferVars, formatVars, startVars, activityVars>>

NextButton ==
    \/ \E s \in FT_STATES : ButtonNotifyState(s)
    \/ \E n \in 0..MaxFileSize : ButtonNotifyBytes(n)
    \/ DsReply
    \/ DsError

(***************************************************************************)
(* The start page (sugar/shell/StartPage.py).                              *)
(***************************************************************************)
NumQueries == 2
NumResults == 2
MaxResults == 3

EmptyText == 0

\* What the search API can return: results with a title and a URL, in any
\* order, possibly repeated, possibly none.
Result == {[title |-> <<"title", i>>, URL |-> <<"url", i>>] : i \in 1..NumResults}
ResultLists == UNION {[1..n -> Result] : n \in 0..MaxResults}

\* ActivitiesModel.add_web_page: append the row [title, address].
AddWebPage(model, title, address) == Append(model, <<title, address>>)

\* The loop of _search over data.results.
RECURSIVE AddResults(_, _)
AddResults(model, results) ==
    IF results = <<>>
    THEN model
    ELSE AddResults(AddWebPage(model, Head(results).title, Head(results).URL),
                    Tail(results))

InitStart ==
    /\ sp_entry = EmptyText
    /\ sp_model = <<>>
    /\ sp_results = <<>>
    /\ sp_query = EmptyText
    /\ sp_path = 0
    /\ sp_calls = <<>>
    /\ sp_op = "init"

StartIdle == InitStart

\* The user edits the search entry.
TypeText(text) ==
    /\ sp_entry' = text
    /\ sp_calls' = <<>>
    /\ sp_op' = "type"
    /\ UNCHANGED <<sp_model, sp_results, sp_query, sp_path>>
    /\ UNCHANGED <<inviteVars, transferVars, formatVars, buttonVars, activityVars>>

SearchAppends(results) ==
    /\ results \in ResultLists
    /\ sp_query' = sp_entry
    /\ sp_entry' = EmptyText
    /\ sp_results' = results
    /\ sp_model' = AddResults(sp_model, results)
    /\ sp_calls' = <<>>
    /\ sp_op' = "search"
    /\ UNCHANGED sp_path
    /\ UNCHANGED <<inviteVars, transferVars, formatVars, buttonVars, activityVars>>

\* StartPage._search, from _search_entry_activate_cb or
\* _search_button_clicked_cb; results is what doGoogleSearch(text) returns.
Search(results) ==
    /\ results \in ResultLists
    /\ sp_query' = sp_entry
    /\ sp_entry' = EmptyText
    /\ sp_results' = results
    /\ sp_model' = AddResults(<<>>, results)
    /\ sp_calls' = <<>>
    /\ sp_op' = "search"
    /\ UNCHANGED sp_path
    /\ UNCHANGED <<inviteVars, transferVars, formatVars, buttonVars, activityVars>>

RowActivatedTitle(path) ==
    /\ path \in 1..Len(sp_model)
    /\ sp_path' = path
    /\ sp_calls' = <<[fn |-> "open_browser", address |-> sp_model[path][1]]>>
    /\ sp_op' = "row-activated"
    /\ UNCHANGED <<sp_entry, sp_model, sp_results, sp_query>>
    /\ UNCHANGED <<inviteVars, transferVars, formatVars, buttonVars, activityVars>>

\* ActivitiesView._row_activated_cb: column 1 of the row at path (the second
\* element of the row) goes to browser_shell.open_browser.
RowActivated(path) ==
    /\ path \in 1..Len(sp_model)
    /\ sp_path' = path
    /\ sp_calls' = <<[fn |-> "open_browser", address |-> sp_model[path][2]]>>
    /\ sp_op' = "row-activated"
    /\ UNCHANGED <<sp_entry, sp_model, sp_results, sp_query>>
    /\ UNCHANGED <<inviteVars, transferVars, formatVars, buttonVars, activityVars>>

NextStart ==
    \/ \E text \in 1..NumQueries : TypeText(text)
    \/ \E results \in ResultLists : Search(results)
    \/ \E path \in 1..MaxResults : RowActivated(path)

(***************************************************************************)
(* The activity buttons of the tray (ActivitiesTray, lines 312-389).       *)
(* The tray of this part holds the activity buttons; invite and transfer   *)
(* buttons are the subject of the parts above.                             *)
(***************************************************************************)
NumHomeActivities == 3
MaxActivityButtons == 4

HomeActivities == 1..NumHomeActivities

\* The fields of the tray that the activity callbacks read and write, with
\* the shell-model facts they consult.
ActivitiesTrayState ==
    [buttons  |-> _buttons,
     items    |-> activity_items,
     active   |-> active_button,
     freeze   |-> _freeze_button_clicks,
     windows  |-> windows,
     next     |-> next_activity_button,
     calls    |-> <<>>,
     error    |-> "none"]

\* The activity a button was connected with in __activity_added_cb.
ActivityOf(t, button) == CHOOSE a \in DOMAIN t.buttons : t.buttons[a] = button

\* ActivitiesTray.__activity_clicked_cb for the button of home_activity,
\* whose props.active is `active'.
ActivityClickedCb(t, home_activity, active) ==
    IF ~t.freeze /\ active
    THEN IF home_activity \in t.windows
         THEN [t EXCEPT !.calls = Append(@, [fn |-> "window.activate",
                                             activity |-> home_activity])]
         ELSE t
    ELSE t

\* The radio group takes `button' as its active member: the button that was
\* active is released, and both emit clicked to their __activity_clicked_cb.
Toggle(t, button) ==
    LET old == t.active
        t1  == [t EXCEPT !.active = button]
        t2  == IF old # None /\ (\E a \in DOMAIN t.buttons : t.buttons[a] = old)
               THEN ActivityClickedCb(t1, ActivityOf(t, old), FALSE)
               ELSE t1
    IN  ActivityClickedCb(t2, ActivityOf(t, button), TRUE)

\* button.props.active = True: nothing is emitted when it is active already.
SetActive(t, button) ==
    IF t.active = button THEN t ELSE Toggle(t, button)

ActivateActivityUnfrozen(t, home_activity) ==
    IF home_activity \notin DOMAIN t.buttons
    THEN [t EXCEPT !.error = "KeyError"]
    ELSE SetActive(t, t.buttons[home_activity])

\* ActivitiesTray._activate_activity.  scroll_to_item and process_updates
\* redraw the tray and change none of the fields.
ActivateActivity(t, home_activity) ==
    IF home_activity \notin DOMAIN t.buttons
    THEN [t EXCEPT !.error = "KeyError"]
    ELSE LET t1 == [t EXCEPT !.freeze = TRUE]
             t2 == SetActive(t1, t.buttons[home_activity])
         IN  [t2 EXCEPT !.freeze = FALSE]

\* ActivitiesTray.__activity_added_cb: the button joins the radio group of
\* the tray's first child; the first button of a new group is active.
ActivityAddedCb(t, home_activity) ==
    LET button == t.next
    IN  [t EXCEPT !.next = t.next + 1,
                  !.items = Append(t.items, button),
                  !.buttons = [a \in DOMAIN t.buttons \cup {home_activity} |->
                                  IF a = home_activity THEN button
                                  ELSE t.buttons[a]],
                  !.active = IF t.items = <<>> THEN button ELSE t.active]

ActivityRemovedKeepsKey(t, home_activity) ==
    IF home_activity \notin DOMAIN t.buttons
    THEN [t EXCEPT !.error = "KeyError"]
    ELSE LET button == t.buttons[home_activity]
         IN  [t EXCEPT !.items = SelectSeq(t.items, LAMBDA i : i # button),
                       !.active = IF t.active = button THEN None ELSE t.active]

\* ActivitiesTray.__activity_removed_cb.
ActivityRemovedCb(t, home_activity) ==
    IF home_activity \notin DOMAIN t.buttons
    THEN [t EXCEPT !.error = "KeyError"]
    ELSE LET button == t.buttons[home_activity]
         IN  [t EXCEPT !.items = SelectSeq(t.items, LAMBDA i : i # button),
                       !.buttons = [a \in DOMAIN t.buttons \ {home_activity} |->
                                       t.buttons[a]],
                       !.active = IF t.active = button THEN None ELSE t.active]

ActivityChangedAlways(t, tabbing, home_activity) ==
    ActivateActivity(t, home_activity)

\* ActivitiesTray.__activity_changed_cb.
ActivityChangedCb(t, tabbing, home_activity) ==
    IF tabbing = None THEN ActivateActivity(t, home_activity) ELSE t

TabbingActivityIgnored(t, home_activity) == t

\* ActivitiesTray.__tabbing_activity_changed_cb.
TabbingActivityChangedCb(t, home_activity) ==
    IF home_activity = None THEN t ELSE ActivateActivity(t, home_activity)

CommitActivities(t, name, home_activity) ==
    /\ _buttons' = t.buttons
    /\ activity_items' = t.items
    /\ active_button' = t.active
    /\ _freeze_button_clicks' = t.freeze
    /\ next_activity_button' = t.next
    /\ act_calls' = t.calls
    /\ act_error' = t.error
    /\ act_op' = [name |-> name, activity |-> home_activity,
                  was |-> active_button]

\* ActivitiesTray.__init__ with a shell model that lists no activity yet.
InitActivities ==
    /\ home_activities = {}
    /\ windows = {}
    /\ tabbing_activity = None
    /\ _buttons = <<>>
    /\ activity_items = <<>>
    /\ active_button = None
    /\ _freeze_button_clicks = FALSE
    /\ next_activity_button = 1
    /\ act_calls = <<>>
    /\ act_error = "none"
    /\ act_op = [name |-> "init", activity |-> None, was |-> None]

ActivitiesIdle == InitActivities

\* The shell model adds an activity and emits activity-added.
ActivityAdded(home_activity, window) ==
    /\ home_activity \notin home_activities
    /\ next_activity_button <= MaxActivityButtons
    /\ home_activities' = home_activities \cup {home_activity}
    /\ windows' = IF window THEN windows \cup {home_activity} ELSE windows
    /\ CommitActivities(ActivityAddedCb(ActivitiesTrayState, home_activity),
                        "activity-added", home_activity)
    /\ UNCHANGED tabbing_activity
    /\ UNCHANGED <<inviteVars, transferVars, formatVars, buttonVars, startVars>>

\* The shell model drops an activity and emits activity-removed.
ActivityRemoved(home_activity) ==
    /\ home_activity \in home_activities
    /\ home_activities' = home_activities \ {home_activity}
    /\ windows' = windows \ {home_activity}
    /\ CommitActivities(ActivityRemovedCb(ActivitiesTrayState, home_activity),
                        "activity-removed", home_activity)
    /\ UNCHANGED tabbing_activity
    /\ UNCHANGED <<inviteVars, transferVars, formatVars, buttonVars, startVars>>

\* The shell model emits active-activity-changed.
ActiveActivityChanged(home_activity) ==
    /\ home_activity \in home_activities
    /\ CommitActivities(ActivityChangedCb(ActivitiesTrayState, tabbing_activity,
                                          home_activity),
                        "active-activity-changed", home_activity)
    /\ UNCHANGED <<home_activities, windows, tabbing_activity>>
    /\ UNCHANGED <<inviteVars, transferVars, formatVars, buttonVars, startVars>>

\* The shell model sets its tabbing activity and emits
\* tabbing-activity-changed.
TabbingActivityChanged(home_activity) ==
    /\ home_activity \in home_activities \cup {None}
    /\ tabbing_activity' = home_activity
    /\ CommitActivities(TabbingActivityChangedCb(ActivitiesTrayState,
                                                 home_activity),
                        "tabbing-activity-changed", home_activity)
    /\ UNCHANGED <<home_activities, windows>>
    /\ UNCHANGED <<inviteVars, transferVars, formatVars, buttonVars, startVars>>

\* The user clicks the button of an activity.
ActivityClicked(home_activity) ==
    /\ home_activity \in home_activities
    /\ CommitActivities(Toggle(ActivitiesTrayState, _buttons[home_activity]),
                        "clicked", home_activity)
    /\ UNCHANGED <<home_activities, windows, tabbing_activity>>
    /\ UNCHANGED <<inviteVars, transferVars, formatVars, buttonVars, startVars>>

NextActivities ==
    \/ \E a \in HomeActivities, window \in BOOLEAN : ActivityAdded(a, window)
    \/ \E a \in HomeActivities : ActivityRemoved(a)
    \/ \E a \in HomeActivities : ActiveActivityChanged(a)
    \/ \E a \in HomeActivities \cup {None} : TabbingActivityChanged(a)
    \/ \E a \in HomeActivities : ActivityClicked(a)

(***************************************************************************)
(* Specifications.                                                         *)
(***************************************************************************)
InitI == InitInvites /\ TransferIdle /\ FormatIdle /\ ButtonIdle /\ StartIdle /\ ActivitiesIdle
InitT == InitTransfer /\ InvitesIdle /\ FormatIdle /\ ButtonIdle /\ StartIdle /\ ActivitiesIdle
InitF == InitFormat /\ InvitesIdle /\ TransferIdle /\ ButtonIdle /\ StartIdle /\ ActivitiesIdle
InitS == InitStart /\ InvitesIdle /\ TransferIdle /\ FormatIdle /\ ButtonIdle /\ ActivitiesIdle
InitA == InitActivities /\ InvitesIdle /\ TransferIdle /\ FormatIdle /\ ButtonIdle /\ StartIdle
InitB == InitButton /\ InvitesIdle /\ TransferIdle /\ FormatIdle /\ StartIdle /\ ActivitiesIdle

NextFormat == Format

SpecInvites == InitI /\ [][NextInvites]_vars
SpecTransfer == InitT /\ [][NextTransfer]_vars
SpecFormat == InitF /\ [][NextFormat]_vars
SpecButton == InitB /\ [][NextButton]_vars
SpecStart == InitS /\ [][NextStart]_vars
SpecActivities == InitA /\ [][NextActivities]_vars

(***************************************************************************)
(* Properties of the invite buttons (SpecInvites).                         *)
(***************************************************************************)
Range(f) == {f[x] : x \in DOMAIN f}
Injective(f) == \A x, y \in DOMAIN f : f[x] = f[y] => x = y
NoDuplicates(seq) == \A j, k \in 1..Len(seq) : seq[j] = seq[k] => j = k

\* The map and the tray hold the same buttons, one per mapped invite.
ButtonsConsistent ==
    /\ Injective(_invite_to_item)
    /\ NoDuplicates(tray_items)
    /\ Range(tray_items) = Range(_invite_to_item)

CollectionFns ==
    {"invites.remove_activity", "invites.remove_private_channel",
     "invites.remove_invite", "invites.remove_private_invite"}
FactoryFns == {"activityfactory.create", "activityfactory.create_with_uri"}
CallsTo(fns) == SelectSeq(calls, LAMBDA c : c.fn \in fns)

\* C1 as stated: the invite buttons are in one-to-one correspondence with the
\* invites in the collection: every invite present has exactly one button and
\* every button belongs to an invite present.
C1_OneToOne ==
    /\ DOMAIN _invite_to_item = invites
    /\ ButtonsConsistent

\* C1 amended: the invite buttons are in one-to-one correspondence with the
\* invites present that are private-channel invites or shared-activity invites
\* whose activity the neighborhood model knew when the invite was added; a
\* shared-activity invite whose activity was unknown then has no button.
C1_OneToOneResolved ==
    /\ DOMAIN _invite_to_item =
           {i \in invites : ~HasActivityId(i) \/ i \in resolvable}
    /\ ButtonsConsistent

\* An invite without a button beside an invite with one, after a removal.
C1_Witness ==
    /\ last_op.op = "invite-removed"
    /\ error = "none"
    /\ \E i \in invites : HasActivityId(i) /\ i \notin DOMAIN _invite_to_item
    /\ \E j \in invites : j \in DOMAIN _invite_to_item

\* C2: for every invite the collection announced, the invite-removed
\* notification removes its button from the tray and from _invite_to_item,
\* leaves no notification icon of a destroyed button in the frame, and the
\* handler completes without error.
C2_RemovedCleanly ==
    last_op.op = "invite-removed" =>
        /\ error = "none"
        /\ last_op.invite \notin DOMAIN _invite_to_item
        /\ Range(tray_items) = Range(_invite_to_item)
        /\ frame_notifs \subseteq Range(_invite_to_item)

\* C3: Decline asks the collection to remove exactly that invite, by activity
\* id or by private channel, and issues no launch request.
C3_DeclineRemovesOnly ==
    last_op.op = "decline" =>
        /\ CallsTo(CollectionFns) =
               <<IF HasActivityId(last_op.invite)
                 THEN Call("invites.remove_activity", last_op.invite.id)
                 ELSE Call("invites.remove_private_channel", last_op.invite.id)>>
        /\ CallsTo(FactoryFns \cup {"launcher.add_launcher"}) = <<>>

\* A shared-activity invite was declined while other invites stay.
C3_Witness ==
    /\ last_op.op = "decline"
    /\ HasActivityId(last_op.invite)
    /\ last_op.invite \notin invites
    /\ invites # {}

\* C4: Join issues exactly one launch request: create with a handle carrying
\* the activity id for a shared-activity invite, create_with_uri with the
\* channel for a private-channel invite.
C4_JoinLaunchesOnce ==
    last_op.op = "join" =>
        CallsTo(FactoryFns) =
            <<IF HasActivityId(last_op.invite)
              THEN Call("activityfactory.create", last_op.invite.id)
              ELSE Call("activityfactory.create_with_uri", last_op.invite.id)>>

\* A private-channel invite was joined.
C4_Witness ==
    /\ last_op.op = "join"
    /\ ~HasActivityId(last_op.invite)
    /\ Len(calls) >= 2

\* The calls a run of _launch ends in: one factory request or one window
\* activation.
Launches(cs) ==
    SelectSeq(cs, LAMBDA c : c.fn \in FactoryFns \cup {"window.activate"})

\* C21: of the clicks on an invite button only the one that finds the
\* notification icon in place launches the target, once, and takes the icon
\* out of the frame; a button that lost its icon never gets it back, so every
\* later click launches nothing.
C21_ClickLaunchesOnce ==
    /\ [][last_op'.op = "click" =>
              LET b == _invite_to_item[last_op'.invite]
              IN /\ _notif_icon[b] =>
                        /\ Len(Launches(calls')) = 1
                        /\ b \notin frame_notifs'
                        /\ b \in DOMAIN _notif_icon' => ~_notif_icon'[b]
                 /\ ~_notif_icon[b] =>
                        /\ Launches(calls') = <<>>
                        /\ \A k \in 1..Len(calls') :
                               calls'[k] # Call("frame.remove_notification", b)]_vars
    /\ [][\A b \in DOMAIN _notif_icon \cap DOMAIN _notif_icon' :
              ~_notif_icon[b] => ~_notif_icon'[b]]_vars

\* A private-channel invite button that was clicked before is clicked again.
C21_Witness ==
    /\ last_op.op = "click"
    /\ ~HasActivityId(last_op.invite)
    /\ last_op.invite \in DOMAIN _invite_to_item
    /\ requests[last_op.invite] = 1
    /\ Launches(calls) = <<>>

\* C22: a click on a shared-activity invite button either activates the
\* window of the running activity or registers a launcher and sends one
\* create request, never both; and the factory is asked at most once for an
\* instance of the shared activity of one invite.
C22_OneInstancePerInvite ==
    /\ last_op.op = "click" /\ HasActivityId(last_op.invite) =>
           \/ Launches(calls) = <<>>
           \/ Launches(calls) = <<Call("window.activate", last_op.invite.id)>>
           \/ SelectSeq(calls, LAMBDA c : c.fn \in FactoryFns \cup
                                   {"window.activate", "launcher.add_launcher"}) =
                  <<Call("launcher.add_launcher", last_op.invite.id),
                    Call("activityfactory.create", last_op.invite.id)>>
    /\ \A i \in DOMAIN requests : HasActivityId(i) => requests[i] <= 1

\* C23: frame.remove_notification is never called with None, and no handler
\* removes the same notification icon twice; an icon is removed only while
\* the frame shows it.
C23_NotificationRemovedOnce ==
    \A k \in 1..Len(calls) :
        calls[k].fn = "frame.remove_notification" =>
            /\ calls[k].arg # None
            /\ \A j \in 1..Len(calls) : calls[j] = calls[k] => j = k

(***************************************************************************)
(* Properties of the transfer palette (SpecTransfer).                      *)
(***************************************************************************)
\* The cached progress bar is a child of the palette's current content.
BarShown ==
    /\ progress_bar # None
    /\ progress_bar = content.vbox
    /\ \E k \in 1..Len(content.children) : content.children[k].kind = "progress_bar"

LabelShown ==
    /\ progress_label # None
    /\ progress_label = content.vbox
    /\ \E k \in 1..Len(content.children) : content.children[k].kind = "progress_label"

\* C5: whenever the palette is popped up and shows a progress bar, the bar's
\* fraction is transferred bytes / file size (for a file size the quotient is
\* defined for, i.e. a positive one).
C5_FractionIsRatio ==
    (popped_up /\ BarShown /\ file_size > 0) =>
        /\ fraction.den > 0
        /\ fraction.num * file_size = transferred_bytes * fraction.den

\* Popped up with a bar showing a transfer that is partly done, after a
\* byte-count notification.
C5_Witness ==
    /\ popped_up /\ BarShown
    /\ ft_op = "notify-bytes"
    /\ 0 < transferred_bytes /\ transferred_bytes < file_size

\* C7: an incoming transfer left in the pending state has a menu of exactly
\* Accept and Decline and a content showing the size/type description.
C7_PendingMenu ==
    (direction = "incoming" /\ ft_state = "pending") =>
        /\ menu = <<"Accept", "Decline">>
        /\ \E k \in 1..Len(content.children) : content.children[k].kind = "size_type"

\* C8: a transfer left in the accepted or open state has a menu of exactly one
\* Cancel item, and a progress bar and a progress label in its content.
C8_ProgressMenu ==
    ft_state \in {"accepted", "open"} =>
        /\ menu = <<"Cancel">>
        /\ BarShown
        /\ LabelShown

\* Accepted or open reached by notifications from a state with other items.
C8_Witness ==
    /\ ft_state \in {"accepted", "open"}
    /\ ft_op = "notify-state"
    /\ notifications >= 2
    /\ direction = "incoming"

\* C9: when the state becomes cancelled the menu has a Resume item and no
\* Accept, Decline or Cancel item.
C9_ResumeMenu ==
    (ft_state = "cancelled" /\ ft_op = "notify-state") =>
        /\ \E k \in 1..Len(menu) : menu[k] = "Resume"
        /\ \A k \in 1..Len(menu) : menu[k] \notin {"Accept", "Decline", "Cancel"}

\* C10: a non-empty cached handle refers to a widget of the current content.
C10_HandlesCurrent ==
    /\ progress_bar # None => BarShown
    /\ progress_label # None => LabelShown

\* What the palette renders: its menu, its content and its cached handles
\* with the values they show.
Rendered ==
    <<menu, content, progress_bar, progress_label, fraction, label_text>>

\* C11: activating Accept, Decline, Cancel or Resume only forwards accept,
\* decline, cancel or resume to the transfer and leaves the menu, the content
\* and the cached handles as they were; what the palette renders changes only
\* in a state notification, a byte-count notification or a popup.
C11_ActivateOnlyForwards ==
    [][/\ ft_op' = "activate" =>
              /\ Rendered' = Rendered
              /\ ft_state' = ft_state
              /\ Len(ft_calls') = 1
              /\ \E k \in 1..Len(menu) :
                     /\ ft_calls'[1].item = k
                     /\ \/ menu[k] = "Accept" /\ ft_calls'[1].op = "accept"
                        \/ menu[k] = "Decline" /\ ft_calls'[1].op = "decline"
                        \/ menu[k] = "Cancel" /\ ft_calls'[1].op = "cancel"
                        \/ menu[k] = "Resume" /\ ft_calls'[1].op = "resume"
       /\ Rendered' # Rendered =>
              ft_op' \in {"notify-state", "notify-bytes", "popup"}]_vars

\* Resume was activated on a popped-up palette whose menu holds other items.
C11_Witness ==
    /\ ft_op = "activate"
    /\ ft_calls = <<[item |-> Len(menu), op |-> "resume"]>>
    /\ Len(menu) >= 2
    /\ popped_up

\* C24: the palette holds at most one byte-count subscription on its
\* transfer, the one _notify_transferred_bytes_handler names, and none while
\* it is popped down: popdown disconnects what popup connected.
C24_OneSubscription ==
    /\ handlers <= 1
    /\ handlers = (IF _handler THEN 1 ELSE 0)
    /\ ~popped_up => handlers = 0

\* The palette of a running transfer was popped up, notified of bytes and
\* popped down again.
C24_Witness ==
    /\ ft_op = "popdown"
    /\ BarShown
    /\ transferred_bytes > 0
    /\ fraction.num > 0
    /\ handlers = 0

(***************************************************************************)
(* Properties of the incoming transfer button (SpecButton).                *)
(***************************************************************************)
FireAndForget(c) == c.mode = "async" /\ c.reply_handler /\ c.error_handler

\* C12 as stated: every document-store call the button issues (create,
\* update, delete) is asynchronous, with a reply handler and an error handler.
C12_AllFireAndForget ==
    \A k \in 1..Len(ds_calls) : FireAndForget(ds_calls[k])

\* C12 amended: every update and delete the button issues is asynchronous
\* with a reply handler and an error handler; the create issued when the
\* transfer opens is synchronous, the callback waits for the object id.
C12_UpdatesFireAndForget ==
    \A k \in 1..Len(ds_calls) :
        /\ ds_calls[k].fn \in {"update", "delete"} => FireAndForget(ds_calls[k])
        /\ ds_calls[k].fn = "create" =>
               /\ ds_calls[k].mode = "sync"
               /\ _object_id = ds_next_id - 1

\* An update of a created record was issued on a byte-count notification.
C12_Witness ==
    /\ b_op = "notify-bytes"
    /\ Len(ds_calls) = 1
    /\ ds_calls[1].fn = "update"
    /\ ds_calls[1].object_id # None

\* C13: when an asynchronous call fails the error callback only logs: the
\* object id and the metadata are unchanged, no call is issued (no retry), and
\* the failed call is no longer outstanding.
C13_ErrorOnlyLogs ==
    [][b_op' = "error-handler" =>
           /\ _object_id' = _object_id
           /\ _metadata' = _metadata
           /\ ds_calls' = <<>>
           /\ ds_pending' = ds_pending - 1
           /\ ds_records' = ds_records
           /\ b_state' = b_state]_vars

\* The error callback ran for a record that exists, another call outstanding.
C13_Witness ==
    /\ b_op = "error-handler"
    /\ _object_id # None
    /\ ds_pending = 1

\* C14: every update and delete is keyed by an object id that an earlier
\* create returned and that was not deleted since, never by None.
C14_KeyedByCreatedId ==
    \A k \in 1..Len(ds_calls) :
        ds_calls[k].fn \in {"update", "delete"} =>
            /\ ds_calls[k].object_id # None
            /\ ds_calls[k].object_id \in ds_records

\* C25: the state notification cancelled completes without error, leaves
\* _object_id None, and issues nothing but one delete, for the id of the
\* record that open created, when there is such a record.
C25_CancelDeletesRecord ==
    (b_op = "notify-state" /\ b_state = "cancelled") =>
        /\ b_error = "none"
        /\ _object_id = None
        /\ Len(ds_calls) <= 1
        /\ \A k \in 1..Len(ds_calls) :
               /\ ds_calls[k].fn = "delete"
               /\ ds_calls[k].object_id \in ds_records

\* C26: after a byte-count notification with 0 < transferred <= file size the
\* progress in the metadata and in the update sent is the percentage
\* 100 * transferred / file size (to the whole percent).
C26_ProgressIsPercentage ==
    (b_op = "notify-bytes" /\ 0 < b_transferred /\ b_file_size > 0) =>
        /\ b_error = "none"
        /\ _metadata["progress"] = (100 * b_transferred) \div b_file_size
        /\ Len(ds_calls) = 1
        /\ ds_calls[1].fn = "update"
        /\ ds_calls[1].progress = (100 * b_transferred) \div b_file_size

\* C27: for a transfer of file size 0 no notification handler of the button
\* or of the palette fails.
C27_ZeroSizeHandled ==
    /\ b_file_size = 0 => b_error = "none"
    /\ file_size = 0 => ft_error = "none"

(***************************************************************************)
(* Properties of the start page (SpecStart).                               *)
(***************************************************************************)
\* C15: the list shows exactly the results of the most recent search, one row
\* (title, URL) per result in the order returned, nothing of earlier
\* searches; after a search the entry is empty.
C15_ListIsLatestResults ==
    /\ Len(sp_model) = Len(sp_results)
    /\ \A k \in 1..Len(sp_results) :
           sp_model[k] = <<sp_results[k].title, sp_results[k].URL>>
    /\ sp_op = "search" => sp_entry = EmptyText

\* A second search with fewer and other results than the one before it.
C15_Witness ==
    /\ sp_op = "search"
    /\ sp_query # EmptyText
    /\ sp_path = 2
    /\ Len(sp_model) = 1

\* C16: activating a row issues exactly one open-URL call, with the address
\* stored in that row of the displayed model (the URL of the matching result
\* of the latest search), and does not change the list.
C16_RowOpensItsUrl ==
    [][sp_op' = "row-activated" =>
           /\ sp_path' \in 1..Len(sp_model)
           /\ sp_calls' = <<[fn |-> "open_browser",
                             address |-> sp_results[sp_path'].URL]>>
           /\ sp_model' = sp_model]_vars

\* The second row of a list of several rows was activated.
C16_Witness ==
    /\ sp_op = "row-activated"
    /\ sp_path = 2
    /\ Len(sp_model) = 3
    /\ sp_model[1] # sp_model[2]

(***************************************************************************)
(* Properties of the activity buttons (SpecActivities).                    *)
(***************************************************************************)
\* C17: active-activity-changed selects the button of the new active
\* activity when the shell model has no tabbing activity, and leaves the
\* selected button as it was while a tabbing activity is set.
C17_ActiveChangeRespectsTabbing ==
    [][act_op'.name = "active-activity-changed" =>
           /\ act_error' = "none"
           /\ tabbing_activity = None =>
                  active_button' = _buttons[act_op'.activity]
           /\ tabbing_activity # None => active_button' = active_button
           /\ UNCHANGED <<_buttons, activity_items>>]_vars

\* While another activity is tabbed to, the active activity changed to one
\* whose button is not the selected one.
C17_Witness ==
    /\ act_op.name = "active-activity-changed"
    /\ tabbing_activity \notin {None, act_op.activity}
    /\ active_button \notin {None, _buttons[act_op.activity]}
    /\ act_op.was = active_button

\* C18: tabbing-activity-changed with an activity selects that activity's
\* button; with None it changes nothing of the tray, the selected button
\* included.
C18_TabbingSelects ==
    [][act_op'.name = "tabbing-activity-changed" =>
           /\ act_error' = "none"
           /\ act_op'.activity # None =>
                  active_button' = _buttons[act_op'.activity]
           /\ act_op'.activity = None =>
                  UNCHANGED <<active_button, _freeze_button_clicks>>
           /\ UNCHANGED <<_buttons, activity_items>>]_vars

\* Tabbing moved the selection from one button to another.
C18_Witness ==
    /\ act_op.name = "tabbing-activity-changed"
    /\ act_op.activity # None
    /\ act_op.was \notin {None, active_button}
    /\ active_button = _buttons[act_op.activity]

\* C19: the keys of _buttons are exactly the activities added and not yet
\* removed, each with a button of its own that is an item of the tray, and
\* the tray holds no other activity button; the button of an activity that
\* was removed is not in the tray.
C19_ButtonsAreActivities ==
    /\ [](/\ DOMAIN _buttons = home_activities
          /\ Injective(_buttons)
          /\ NoDuplicates(activity_items)
          /\ Range(_buttons) = Range(activity_items)
          /\ act_op.name \in {"activity-added", "activity-removed"} =>
                 act_error = "none")
    /\ [][act_op'.name = "activity-removed" =>
              _buttons[act_op'.activity] \notin Range(activity_items')]_vars

\* An activity was removed while others stay, after one was added again.
C19_Witness ==
    /\ act_op.name = "activity-removed"
    /\ Len(activity_items) = 2
    /\ next_activity_button > NumHomeActivities + 1

\* C20: a selection made by active-activity-changed or
\* tabbing-activity-changed activates no window; a window is activated only
\* by a click on a button that is then the active one, and
\* _freeze_button_clicks is false after every callback.
C20_OnlyClicksActivate ==
    /\ _freeze_button_clicks = FALSE
    /\ act_op.name \in {"active-activity-changed", "tabbing-activity-changed"} =>
           act_calls = <<>>
    /\ act_calls # <<>> =>
           /\ act_op.name = "clicked"
           /\ act_calls = <<[fn |-> "window.activate",
                             activity |-> act_op.activity]>>
           /\ active_button = _buttons[act_op.activity]

\* A notification moved the selection to an activity that has a window.
C20_Witness ==
    /\ act_op.name \in {"active-activity-changed", "tabbing-activity-changed"}
    /\ act_op.activity \in windows
    /\ active_button = _buttons[act_op.activity]
    /\ act_op.was \notin {None, active_button}

(***************************************************************************)
(* Property of _format_size (SpecFormat).                                  *)
(***************************************************************************)
\* C6: bytes below 1024, whole kilobytes floor(size/1024) from 1024 up to
\* below 1048576, whole megabytes floor(size/1048576) from 1048576 on.
C6_FormatThresholds ==
    fmt_pc = "done" =>
        /\ fmt_size < 1024 => (fmt_out.unit = "B" /\ fmt_out.n = fmt_size)
        /\ (1024 <= fmt_size /\ fmt_size < 1048576) =>
               /\ fmt_out.unit = "KB"
               /\ fmt_out.n * 1024 <= fmt_size
               /\ fmt_size < (fmt_out.n + 1) * 1024
        /\ fmt_size >= 1048576 =>
               /\ fmt_out.unit = "MB"
               /\ fmt_out.n * 1048576 <= fmt_size
               /\ fmt_size < (fmt_out.n + 1) * 1048576

\* The boundary 1048576 itself was formatted.
C6_Witness == fmt_pc = "done" /\ fmt_size = 1048576 /\ fmt_out.unit = "MB"

====
